---- MODULE Spec2Model ----
(***************************************************************************)
(* A model of the gohole Pi-Hole API client (src/main.go): the connector,  *)
(* its twelve accessors and the four presenters.                           *)
(*                                                                         *)
(* Strings that the client builds (the request URL, decimal numbers) are   *)
(* sequences of one-character strings.  A response body is a sequence of   *)
(* JSON lexemes; json.Unmarshal is the composition of a parser of lexemes  *)
(* (ParseValue) and a decoder into the Go target type (Decode).  Texts     *)
(* carried inside JSON (keys, string values) are atomic strings.           *)
(***************************************************************************)
EXTENDS Integers, Sequences, FiniteSets, TLC

VARIABLES conn, conn0, exited, last, held

vars == <<conn, conn0, exited, last, held>>

(***************************************************************************)
(* Bounds of the model.                                                    *)
(***************************************************************************)
MaxHostLen == 1
MaxTokenLen == 1
MaxN == 10
MaxFreq == 2
MaxMembers == 2

(***************************************************************************)
(* Strings as character sequences.                                         *)
(***************************************************************************)
StrsOver(alphabet, n) == UNION {[1..k -> alphabet] : k \in 0..n}

HostChars == {"h"}
TokenChars == {"k"}
Hosts == StrsOver(HostChars, MaxHostLen)
Tokens == StrsOver(TokenChars, MaxTokenLen)

\* type PiHConnector struct { Host string; Token string }
PiHConnector == [Host : Hosts, Token : Tokens]

SchemePrefix == <<"h", "t", "t", "p", ":", "/", "/">>
ApiPath == <<"/", "a", "d", "m", "i", "n", "/", "a", "p", "i", ".", "p", "h", "p", "?">>
AuthParam == <<"&", "a", "u", "t", "h", "=">>

EpType == <<"t", "y", "p", "e">>
EpVersion == <<"v", "e", "r", "s", "i", "o", "n">>
EpSummary == <<"s", "u", "m", "m", "a", "r", "y">>
EpTimeData == <<"o", "v", "e", "r", "T", "i", "m", "e", "D", "a", "t", "a", "1", "0", "m", "i", "n", "s">>
EpTopItems == <<"t", "o", "p", "I", "t", "e", "m", "s", "=">>
EpTopClients == <<"t", "o", "p", "C", "l", "i", "e", "n", "t", "s", "=">>
EpForwardDestinations == <<"g", "e", "t", "F", "o", "r", "w", "a", "r", "d", "D", "e", "s", "t", "i", "n", "a", "t", "i", "o", "n", "s">>
EpQueryTypes == <<"g", "e", "t", "Q", "u", "e", "r", "y", "T", "y", "p", "e", "s">>
EpQueries == <<"g", "e", "t", "A", "l", "l", "Q", "u", "e", "r", "i", "e", "s">>
EpEnable == <<"e", "n", "a", "b", "l", "e">>
EpDisable == <<"d", "i", "s", "a", "b", "l", "e">>
EpRecentBlocked == <<"r", "e", "c", "e", "n", "t", "B", "l", "o", "c", "k", "e", "d">>

(***************************************************************************)
(* strconv.Itoa: the base-10 rendering of an int, "-" first when negative. *)
(***************************************************************************)
DigitChar(d) == <<"0", "1", "2", "3", "4", "5", "6", "7", "8", "9">>[d + 1]

RECURSIVE FormatUint(_)
FormatUint(u) ==
    IF u < 10 THEN <<DigitChar(u)>>
    ELSE FormatUint(u \div 10) \o <<DigitChar(u % 10)>>

Itoa_DropsSign(n) == IF n < 0 THEN FormatUint(-n) ELSE FormatUint(n)

Itoa(n) == IF n < 0 THEN <<"-">> \o FormatUint(-n) ELSE FormatUint(n)

(***************************************************************************)
(* JSON documents and their lexemes.                                       *)
(***************************************************************************)
NullDoc == [kind |-> "null"]
BoolDoc(b) == [kind |-> "bool", b |-> b]
\* A number: n when frac is FALSE, n + 1/2 when frac is TRUE.
NumDoc(n) == [n |-> n, kind |-> "num", frac |-> FALSE]
FracDoc(n) == [n |-> n, kind |-> "num", frac |-> TRUE]
StrDoc(s) == [kind |-> "str", s |-> s]
ArrDoc(elems) == [kind |-> "array", elems |-> elems]
ObjDoc(members) == [kind |-> "object", members |-> members]
Member(k, v) == [key |-> k, val |-> v]

Lit(d) == [v |-> d, t |-> "lit"]
Punct(p) == [t |-> p]
\* Text that is no JSON lexeme (a bare word, an HTML error page).
Raw(s) == [s |-> s, t |-> "raw"]

RECURSIVE Render(_), RenderMembers(_, _), RenderElems(_, _)
\* The lexemes of a document, as a server writes it.
Render(d) ==
    CASE d.kind = "object" ->
           <<Punct("{")>> \o RenderMembers(d.members, 1) \o <<Punct("}")>>
      [] d.kind = "array" ->
           <<Punct("[")>> \o RenderElems(d.elems, 1) \o <<Punct("]")>>
      [] OTHER -> <<Lit(d)>>

RenderMembers(ms, i) ==
    IF i > Len(ms) THEN <<>>
    ELSE (IF i > 1 THEN <<Punct(",")>> ELSE <<>>)
         \o <<Lit(StrDoc(ms[i].key)), Punct(":")>> \o Render(ms[i].val)
         \o RenderMembers(ms, i + 1)

RenderElems(es, i) ==
    IF i > Len(es) THEN <<>>
    ELSE (IF i > 1 THEN <<Punct(",")>> ELSE <<>>)
         \o Render(es[i]) \o RenderElems(es, i + 1)

ParseFail == [val |-> NullDoc, ok |-> FALSE, next |-> 0]
ParseOk(v, n) == [val |-> v, ok |-> TRUE, next |-> n]

IsPunct(toks, i, p) == i <= Len(toks) /\ toks[i].t = p

RECURSIVE ParseValue(_, _), ParseMembers(_, _, _), ParseElems(_, _, _)
\* One JSON value starting at lexeme i.
ParseValue(toks, i) ==
    IF i > Len(toks) THEN ParseFail
    ELSE CASE toks[i].t = "lit" -> ParseOk(toks[i].v, i + 1)
           [] toks[i].t = "{" ->
                IF IsPunct(toks, i + 1, "}") THEN ParseOk(ObjDoc(<<>>), i + 2)
                ELSE ParseMembers(toks, i + 1, <<>>)
           [] toks[i].t = "[" ->
                IF IsPunct(toks, i + 1, "]") THEN ParseOk(ArrDoc(<<>>), i + 2)
                ELSE ParseElems(toks, i + 1, <<>>)
           [] OTHER -> ParseFail

ParseMembers(toks, i, acc) ==
    IF /\ i + 1 <= Len(toks)
       /\ toks[i].t = "lit" /\ toks[i].v.kind = "str"
       /\ toks[i + 1].t = ":"
    THEN LET r == ParseValue(toks, i + 2) IN
         IF ~r.ok THEN ParseFail
         ELSE LET acc2 == Append(acc, Member(toks[i].v.s, r.val)) IN
              IF IsPunct(toks, r.next, ",") THEN ParseMembers(toks, r.next + 1, acc2)
              ELSE IF IsPunct(toks, r.next, "}") THEN ParseOk(ObjDoc(acc2), r.next + 1)
              ELSE ParseFail
    ELSE ParseFail

ParseElems(toks, i, acc) ==
    LET r == ParseValue(toks, i) IN
    IF ~r.ok THEN ParseFail
    ELSE LET acc2 == Append(acc, r.val) IN
         IF IsPunct(toks, r.next, ",") THEN ParseElems(toks, r.next + 1, acc2)
         ELSE IF IsPunct(toks, r.next, "]") THEN ParseOk(ArrDoc(acc2), r.next + 1)
         ELSE ParseFail

\* json.Unmarshal's first pass (checkValid): the whole input is one value.
Valid(bs) == LET r == ParseValue(bs, 1) IN r.ok /\ r.next = Len(bs) + 1
DocOf(bs) == ParseValue(bs, 1).val

(***************************************************************************)
(* Go types of the decoding targets and their zero values.                 *)
(***************************************************************************)
TString == [k |-> "string"]
TInt == [k |-> "int"]
TInt64 == [k |-> "int64"]
TFloat32 == [k |-> "float32"]
TBool == [k |-> "bool"]
MapOf(e) == [k |-> "map", elem |-> e]
SliceOf(e) == [k |-> "slice", elem |-> e]
\* A struct field: its Go name, its json tag and its type.
Field(name, tag, type) == [name |-> name, tag |-> tag, type |-> type]
StructOf(fields) == [k |-> "struct", fields |-> fields]

PiHType == StructOf(<<Field("Type", "type", TString)>>)

PiHVersion == StructOf(<<Field("Version", "version", TFloat32)>>)

Relative ==
    StructOf(<<Field("Days", "days", TInt64), Field("Hours", "hours", TInt64),
               Field("Minutes", "minutes", TInt64)>>)

GravityLastUpdated ==
    StructOf(<<Field("FileExists", "file_exists", TBool),
               Field("Absolute", "absolute", TInt64),
               Field("Relative", "relative", Relative)>>)

SummaryFields ==
    <<
      Field("DomainsBeingBlocked", "domains_being_blocked", TString),
      Field("DNSQueriesToday", "dns_queries_today", TString),
      Field("AdsBlockedToday", "ads_blocked_today", TString),
      Field("AdsPercentageToday", "ads_percentage_today", TString),
      Field("UniqueDomains", "unique_domains", TString),
      Field("QueriesForwarded", "queries_forwarded", TString),
      Field("QueriesCached", "queries_cached", TString),
      Field("ClientsEverSeen", "clients_ever_seen", TString),
      Field("UniqueClients", "unique_clients", TString),
      Field("DNSQueriesAllTypes", "dns_queries_all_types", TString),
      Field("ReplyUNKNOWN", "reply_UNKNOWN", TString),
      Field("ReplyNODATA", "reply_NODATA", TString),
      Field("ReplyNXDOMAIN", "reply_NXDOMAIN", TString),
      Field("ReplyCNAME", "reply_CNAME", TString),
      Field("ReplyIP", "reply_IP", TString),
      Field("ReplyDOMAIN", "reply_DOMAIN", TString),
      Field("ReplyRRNAME", "reply_RRNAME", TString),
      Field("ReplySERVFAIL", "reply_SERVFAIL", TString),
      Field("ReplyREFUSED", "reply_REFUSED", TString),
      Field("ReplyNOTIMP", "reply_NOTIMP", TString),
      Field("ReplyOTHER", "reply_OTHER", TString),
      Field("ReplyDNSSEC", "reply_DNSSEC", TString),
      Field("ReplyNONE", "reply_NONE", TString),
      Field("ReplyBLOB", "reply_BLOB", TString),
      Field("DNSQueriesAllReplies", "dns_queries_all_replies", TString),
      Field("PrivacyLevel", "privacy_level", TString),
      Field("Status", "status", TString),
      Field("GravityLastUpdated", "gravity_last_updated", GravityLastUpdated)
    >>

PiHSummary_SwappedTags ==
    StructOf([i \in 1..Len(SummaryFields) |->
        LET f == SummaryFields[i] IN
        IF f.name = "AdsBlockedToday" THEN Field(f.name, "ads_percentage_today", f.type)
        ELSE IF f.name = "AdsPercentageToday" THEN Field(f.name, "ads_blocked_today", f.type)
        ELSE f])

PiHSummary == StructOf(SummaryFields)

PiHTimeData ==
    StructOf(<<Field("AdsOverTime", "ads_over_time", MapOf(TInt)),
               Field("DomainsOverTime", "domains_over_time", MapOf(TInt))>>)

PiHTopItems ==
    StructOf(<<Field("Queries", "top_queries", MapOf(TInt)),
               Field("Blocked", "top_ads", MapOf(TInt))>>)

PiHTopClients == StructOf(<<Field("Clients", "top_sources", MapOf(TInt))>>)

PiHForwardDestinations ==
    StructOf(<<Field("Destinations", "forward_destinations", MapOf(TFloat32))>>)

PiHQueryTypes == StructOf(<<Field("Types", "querytypes", MapOf(TFloat32))>>)

PiHQueries == StructOf(<<Field("Data", "data", SliceOf(SliceOf(TString)))>>)

\* A Go map is a function on its keys; nil and the empty map read alike.
EmptyMap == <<>>
MapSet(m, key, v) == [x \in (DOMAIN m) \cup {key} |-> IF x = key THEN v ELSE m[x]]
\* m[key] of Go: the element type's zero value when the key is absent.
MapIndex(m, key, zero) == IF key \in DOMAIN m THEN m[key] ELSE zero

FieldNames(fields) == {fields[i].name : i \in 1..Len(fields)}
FieldNamed(fields, name) == fields[CHOOSE i \in 1..Len(fields) : fields[i].name = name]

RECURSIVE Zero(_)
Zero(T) ==
    CASE T.k = "string" -> ""
      [] T.k \in {"int", "int64"} -> 0
      [] T.k = "float32" -> [n |-> 0, frac |-> FALSE]
      [] T.k = "bool" -> FALSE
      [] T.k = "map" -> EmptyMap
      [] T.k = "slice" -> <<>>
      [] T.k = "struct" ->
           [name \in FieldNames(T.fields) |-> Zero(FieldNamed(T.fields, name).type)]

(***************************************************************************)
(* encoding/json decoding of a document into a Go value.                   *)
(***************************************************************************)
\* Case folding of the object keys that carry upper-case letters.
FoldTable ==
    [Ads_Blocked_Today |-> "ads_blocked_today",
     STATUS |-> "status",
     Status |-> "status",
     TOP_ADS |-> "top_ads",
     reply_BLOB |-> "reply_blob",
     reply_CNAME |-> "reply_cname",
     reply_DNSSEC |-> "reply_dnssec",
     reply_DOMAIN |-> "reply_domain",
     reply_IP |-> "reply_ip",
     reply_NODATA |-> "reply_nodata",
     reply_NONE |-> "reply_none",
     reply_NOTIMP |-> "reply_notimp",
     reply_NXDOMAIN |-> "reply_nxdomain",
     reply_OTHER |-> "reply_other",
     reply_REFUSED |-> "reply_refused",
     reply_RRNAME |-> "reply_rrname",
     reply_SERVFAIL |-> "reply_servfail",
     reply_UNKNOWN |-> "reply_unknown"]
Fold(s) == IF s \in DOMAIN FoldTable THEN FoldTable[s] ELSE s

\* The field an object key decodes into: the exact tag first, else the first
\* field whose tag matches ignoring case; 0 when the key is unknown.
FieldIndex(fields, key) ==
    LET exact == {i \in 1..Len(fields) : fields[i].tag = key}
        folded == {i \in 1..Len(fields) : Fold(fields[i].tag) = Fold(key)}
        Min(S) == CHOOSE i \in S : \A j \in S : i <= j
    IN  IF exact # {} THEN Min(exact)
        ELSE IF folded # {} THEN Min(folded)
        ELSE 0

DecOk(v) == [v |-> v, err |-> FALSE]
\* An UnmarshalTypeError: it is remembered and decoding goes on.
DecErr(v) == [v |-> v, err |-> TRUE]

RECURSIVE Decode(_, _, _), DecodeMapMembers(_, _, _, _),
          DecodeElems(_, _, _, _), DecodeStructMembers(_, _, _, _)
\* The value of type T left by decoding document d over the value cur.
Decode(T, d, cur) ==
    IF d.kind = "null"
    THEN DecOk(IF T.k \in {"map", "slice"} THEN Zero(T) ELSE cur)
    ELSE CASE T.k = "string" ->
                IF d.kind = "str" THEN DecOk(d.s) ELSE DecErr(cur)
           [] T.k \in {"int", "int64"} ->
                IF d.kind = "num" /\ ~d.frac THEN DecOk(d.n) ELSE DecErr(cur)
           [] T.k = "float32" ->
                IF d.kind = "num" THEN DecOk([n |-> d.n, frac |-> d.frac])
                ELSE DecErr(cur)
           [] T.k = "bool" ->
                IF d.kind = "bool" THEN DecOk(d.b) ELSE DecErr(cur)
           [] T.k = "map" ->
                IF d.kind = "object"
                THEN DecodeMapMembers(T.elem, d.members, 1, DecOk(cur))
                ELSE DecErr(cur)
           [] T.k = "slice" ->
                IF d.kind = "array"
                THEN DecodeElems(T.elem, d.elems, 1, DecOk(<<>>))
                ELSE DecErr(cur)
           [] T.k = "struct" ->
                IF d.kind = "object"
                THEN DecodeStructMembers(T.fields, d.members, 1, DecOk(cur))
                ELSE DecErr(cur)

DecodeMapMembers(E, ms, i, acc) ==
    IF i > Len(ms) THEN acc
    ELSE LET r == Decode(E, ms[i].val, Zero(E)) IN
         DecodeMapMembers(E, ms, i + 1,
             [v |-> MapSet(acc.v, ms[i].key, r.v), err |-> acc.err \/ r.err])

DecodeElems(E, es, i, acc) ==
    IF i > Len(es) THEN acc
    ELSE LET r == Decode(E, es[i], Zero(E)) IN
         DecodeElems(E, es, i + 1,
             [v |-> Append(acc.v, r.v), err |-> acc.err \/ r.err])

DecodeStructMembers(fields, ms, i, acc) ==
    IF i > Len(ms) THEN acc
    ELSE LET f == FieldIndex(fields, ms[i].key) IN
         IF f = 0 THEN DecodeStructMembers(fields, ms, i + 1, acc)
         ELSE LET name == fields[f].name
                  r == Decode(fields[f].type, ms[i].val, acc.v[name])
              IN  DecodeStructMembers(fields, ms, i + 1,
                      [v |-> [acc.v EXCEPT ![name] = r.v],
                       err |-> acc.err \/ r.err])

\* json.Unmarshal(bs, &cur): a syntax error before anything is stored, else
\* the decoded value and whether a type error was met.
JsonUnmarshal(bs, T, cur) ==
    IF ~Valid(bs) THEN DecErr(cur) ELSE Decode(T, DocOf(bs), cur)

(***************************************************************************)
(* The responses a server (or the network) can give.                       *)
(***************************************************************************)
SeqsUpTo(S, n) == UNION {[1..k -> S] : k \in 0..n}
DistinctKeys(ms) == \A i, j \in 1..Len(ms) : ms[i].key = ms[j].key => i = j

Names == {"a.com", "b.com", "c.com"}
Freqs == 1..MaxFreq

\* Frequency objects: each name at most once, in any order.
FreqObjs ==
    {ObjDoc(ms) : ms \in {s \in SeqsUpTo({Member(n, NumDoc(f)) : n \in Names, f \in Freqs},
                                         Cardinality(Names)) : DistinctKeys(s)}}
FewFreqObjs == {ObjDoc(<<Member("a.com", NumDoc(1))>>)}

StatusMembers ==
    {Member(k, v) : k \in {"status", "Status", "other"},
                    v \in {StrDoc("enabled"), StrDoc("disabled"), NullDoc}}
StatusDocs ==
    {ObjDoc(ms) : ms \in SeqsUpTo(StatusMembers, MaxMembers)}
    \cup {ObjDoc(<<Member("status", NumDoc(1))>>),
          ObjDoc(<<Member("status", StrDoc("enabled")), Member("other", NumDoc(1))>>),
          ObjDoc(<<Member("status", StrDoc("")), Member("status", StrDoc("enabled"))>>)}

SummaryMembers ==
    {Member(k, v) : k \in {"ads_blocked_today", "Ads_Blocked_Today", "reply_IP"},
                    v \in {StrDoc("1,234"), StrDoc(" 07.50 "), NullDoc}}
GravityDoc ==
    ObjDoc(<<Member("file_exists", BoolDoc(TRUE)), Member("absolute", NumDoc(7)),
             Member("relative", ObjDoc(<<Member("days", NumDoc(1)),
                                         Member("hours", NumDoc(2)),
                                         Member("minutes", NumDoc(3))>>))>>)
SummaryDocs ==
    {ObjDoc(ms) : ms \in SeqsUpTo(SummaryMembers, MaxMembers)}
    \cup {ObjDoc(<<Member("status", StrDoc("enabled")),
                   Member("gravity_last_updated", GravityDoc)>>),
          ObjDoc(<<Member("gravity_last_updated", StrDoc("yesterday"))>>),
          ObjDoc(<<Member("dns_queries_today", NumDoc(7))>>),
          ObjDoc(<<Member("dns_queries_today", StrDoc("7")), Member("unknown", NumDoc(7))>>)}

TopDocs ==
    {ObjDoc(<<Member("top_queries", q), Member("top_ads", a)>>) :
        q \in FreqObjs, a \in FewFreqObjs}
    \cup {ObjDoc(<<Member("top_queries", q), Member("top_ads", a)>>) :
        q \in FewFreqObjs, a \in FreqObjs}
    \cup {ObjDoc(<<Member("top_ads", ArrDoc(<<>>))>>),
          ObjDoc(<<Member("top_queries", ObjDoc(<<Member("a.com", FracDoc(1))>>))>>)}

ClientDocs ==
    {ObjDoc(<<Member("top_sources", c)>>) : c \in FreqObjs}
    \cup {ObjDoc(<<Member("top_sources", ObjDoc(<<Member("a.com", StrDoc("1"))>>))>>)}

OtherDocs ==
    {ObjDoc(<<Member("type", StrDoc("FTL"))>>),
     ObjDoc(<<Member("type", NumDoc(3))>>),
     ObjDoc(<<Member("version", NumDoc(3))>>),
     ObjDoc(<<Member("version", FracDoc(3))>>),
     ObjDoc(<<Member("version", StrDoc("3"))>>),
     ObjDoc(<<Member("ads_over_time", ObjDoc(<<Member("1700000000", NumDoc(1))>>)),
              Member("domains_over_time", ObjDoc(<<Member("1700000000", NumDoc(2))>>))>>),
     ObjDoc(<<Member("ads_over_time", ObjDoc(<<Member("1700000000", FracDoc(1))>>))>>),
     ObjDoc(<<Member("forward_destinations", ObjDoc(<<Member("dns.google|8.8.8.8", FracDoc(3))>>))>>),
     ObjDoc(<<Member("forward_destinations", ArrDoc(<<>>))>>),
     ObjDoc(<<Member("querytypes", ObjDoc(<<Member("A (IPv4)", FracDoc(3))>>))>>),
     ObjDoc(<<Member("querytypes", StrDoc("A"))>>),
     ObjDoc(<<Member("data", ArrDoc(<<ArrDoc(<<StrDoc("1700000000"), StrDoc("IPv4"),
                     StrDoc("a.com"), StrDoc("10.0.0.2"), StrDoc("2")>>)>>))>>),
     ObjDoc(<<Member("data", ArrDoc(<<ArrDoc(<<NumDoc(1)>>)>>))>>)}

ScalarDocs ==
    {NullDoc, BoolDoc(TRUE), NumDoc(3), FracDoc(3), StrDoc("enabled"),
     ArrDoc(<<>>), ArrDoc(<<StrDoc("status"), StrDoc("enabled")>>), ObjDoc(<<>>)}

\* Bodies that are not JSON: nothing, bare text, a document cut short or
\* followed by more.
BrokenBodies ==
    {<<>>, <<Raw("ads.example.com")>>, <<Punct("{")>>,
     <<Punct("{"), Lit(StrDoc("status")), Punct(":"), Lit(StrDoc("enabled"))>>,
     <<Lit(StrDoc("enabled")), Lit(StrDoc("enabled"))>>}

DocsFor(op) ==
    ScalarDocs \cup
    (CASE op \in {"Enable", "Disable"} -> StatusDocs
       [] op = "Summary" -> SummaryDocs
       [] op = "Top" -> TopDocs
       [] op = "Clients" -> ClientDocs
       [] OTHER -> OtherDocs)

\* A few documents of the shape each accessor expects.
SampleDocsFor(op) ==
    {NullDoc} \cup
    (CASE op \in {"Enable", "Disable"} ->
            {ObjDoc(<<Member("status", StrDoc("enabled"))>>),
             ObjDoc(<<Member("status", StrDoc("disabled"))>>)}
       [] op = "Summary" ->
            {ObjDoc(<<Member("ads_blocked_today", StrDoc("1,234")),
                      Member("gravity_last_updated", GravityDoc)>>)}
       [] op = "Top" ->
            {ObjDoc(<<Member("top_queries", ObjDoc(<<Member("a.com", NumDoc(1)),
                                                     Member("b.com", NumDoc(1))>>)),
                      Member("top_ads", ObjDoc(<<Member("c.com", NumDoc(MaxFreq))>>))>>)}
       [] op = "Clients" ->
            {ObjDoc(<<Member("top_sources", ObjDoc(<<Member("a.com", NumDoc(1)),
                                                     Member("b.com", NumDoc(MaxFreq))>>))>>)}
       [] OTHER -> OtherDocs)

NetOk(bs) == [kind |-> "ok", bytes |-> bs]
NetFailures ==
    {[kind |-> "transport_error", bytes |-> <<>>], [kind |-> "read_error", bytes |-> <<>>]}

\* What http.Get and io.ReadAll can give for a request of accessor op.
Responses(op) ==
    NetFailures
    \cup {NetOk(bs) : bs \in BrokenBodies}
    \cup {NetOk(Render(d)) : d \in DocsFor(op)}

\* The responses explored when calls follow one another.
SampleResponses(op) ==
    NetFailures
    \cup {NetOk(<<Raw("ads.example.com")>>)}
    \cup {NetOk(Render(d)) : d \in SampleDocsFor(op)}

\* The counts a caller passes to Top and Clients.
Counts == {-MaxN, 0, 1, MaxN}

(***************************************************************************)
(* PiHConnector.Get                                                        *)
(***************************************************************************)
RequestString_AlwaysAuth(ph, endpoint) ==
    SchemePrefix \o ph.Host \o ApiPath \o endpoint \o AuthParam \o ph.Token

RequestString(ph, endpoint) ==
    LET requestString == SchemePrefix \o ph.Host \o ApiPath \o endpoint IN
    IF ph.Token # <<>> THEN requestString \o AuthParam \o ph.Token
    ELSE requestString

Get_ClearsToken(ph, endpoint, net) ==
    [ph |-> [ph EXCEPT !.Token = <<>>],
     endpoint |-> endpoint,
     requestString |-> RequestString(ph, endpoint),
     fatal |-> net.kind # "ok",
     body |-> net.bytes]

\* The receiver after the call, the URL requested, whether log.Fatal ended
\* the process (http.Get or io.ReadAll failed), and the body returned otherwise.
Get(ph, endpoint, net) ==
    [ph |-> ph,
     endpoint |-> endpoint,
     requestString |-> RequestString(ph, endpoint),
     fatal |-> net.kind # "ok",
     body |-> net.bytes]

NoValue == [kind |-> "none"]

\* The state left by an accessor that ended the process with log.Fatal.
Fatal(op, arg, g, net, at) ==
    /\ exited' = TRUE
    /\ held' = NoValue
    /\ last' = [op |-> op, endpoint |-> g.endpoint, net |-> net, arg |-> arg,
                at |-> at, url |-> g.requestString, outcome |-> "fatal"]

\* The state left by an accessor that returned ret to its caller, having
\* decoded the body into the value decoded.
Returned(op, arg, g, net, ret, decoded) ==
    /\ exited' = FALSE
    /\ held' = [kind |-> op, v |-> ret, src |-> DocOf(net.bytes)]
    /\ last' = [op |-> op, endpoint |-> g.endpoint, net |-> net, arg |-> arg,
                url |-> g.requestString, outcome |-> "returned",
                ret |-> ret, decoded |-> decoded]

\* The accessors that decode the body into a struct and return it.
StructAccessor(op, arg, endpoint, T, net) ==
    /\ ~exited
    /\ LET g == Get(conn, endpoint, net)
           s == JsonUnmarshal(g.body, T, Zero(T))
       IN  /\ conn' = g.ph
           /\ IF g.fatal THEN Fatal(op, arg, g, net, "Get")
              ELSE IF s.err THEN Fatal(op, arg, g, net, "Unmarshal")
              ELSE Returned(op, arg, g, net, [kind |-> "value", v |-> s.v], s.v)
    /\ UNCHANGED conn0

Type(net) == StructAccessor("Type", 0, EpType, PiHType, net)
Version(net) == StructAccessor("Version", 0, EpVersion, PiHVersion, net)
Summary(net) == StructAccessor("Summary", 0, EpSummary, PiHSummary, net)
TimeData(net) == StructAccessor("TimeData", 0, EpTimeData, PiHTimeData, net)
Top(n, net) == StructAccessor("Top", n, EpTopItems \o Itoa(n), PiHTopItems, net)
Clients(n, net) ==
    StructAccessor("Clients", n, EpTopClients \o Itoa(n), PiHTopClients, net)
ForwardDestinations(net) ==
    StructAccessor("ForwardDestinations", 0, EpForwardDestinations,
                   PiHForwardDestinations, net)
QueryTypes(net) == StructAccessor("QueryTypes", 0, EpQueryTypes, PiHQueryTypes, net)
Queries(net) == StructAccessor("Queries", 0, EpQueries, PiHQueries, net)

NilError == [kind |-> "nil"]
ErrorsNew(msg) == [kind |-> "error", msg |-> msg]

EnableResult_RejectsOnlyDisabled(resp) ==
    IF MapIndex(resp, "status", "") = "disabled" THEN ErrorsNew("Something went wrong")
    ELSE NilError

EnableResult(resp) ==
    IF MapIndex(resp, "status", "") # "enabled" THEN ErrorsNew("Something went wrong")
    ELSE NilError

DisableResult(resp) ==
    IF MapIndex(resp, "status", "") # "disabled" THEN ErrorsNew("Something went wrong")
    ELSE NilError

Enable_ReturnsDecodeError(net) ==
    /\ ~exited
    /\ LET g == Get(conn, EpEnable, net)
           resp == JsonUnmarshal(g.body, MapOf(TString), EmptyMap)
       IN  /\ conn' = g.ph
           /\ IF g.fatal THEN Fatal("Enable", 0, g, net, "Get")
              ELSE IF resp.err
                   THEN Returned("Enable", 0, g, net, ErrorsNew("Something went wrong"), resp.v)
              ELSE Returned("Enable", 0, g, net, EnableResult(resp.v), resp.v)
    /\ UNCHANGED conn0

Enable(net) ==
    /\ ~exited
    /\ LET g == Get(conn, EpEnable, net)
           resp == JsonUnmarshal(g.body, MapOf(TString), EmptyMap)
       IN  /\ conn' = g.ph
           /\ IF g.fatal THEN Fatal("Enable", 0, g, net, "Get")
              ELSE IF resp.err THEN Fatal("Enable", 0, g, net, "Unmarshal")
              ELSE Returned("Enable", 0, g, net, EnableResult(resp.v), resp.v)
    /\ UNCHANGED conn0

Disable(net) ==
    /\ ~exited
    /\ LET g == Get(conn, EpDisable, net)
           resp == JsonUnmarshal(g.body, MapOf(TString), EmptyMap)
       IN  /\ conn' = g.ph
           /\ IF g.fatal THEN Fatal("Disable", 0, g, net, "Get")
              ELSE IF resp.err THEN Fatal("Disable", 0, g, net, "Unmarshal")
              ELSE Returned("Disable", 0, g, net, DisableResult(resp.v), resp.v)
    /\ UNCHANGED conn0

\* string(bs): the same bytes, as text.
BytesToString(bs) == [i \in 1..Len(bs) |-> bs[i]]

RecentBlockedResult_Decodes(bs) ==
    [fatal |-> ~Valid(bs), text |-> BytesToString(bs)]

RecentBlockedResult(bs) == [fatal |-> FALSE, text |-> BytesToString(bs)]

RecentBlocked(net) ==
    /\ ~exited
    /\ LET g == Get(conn, EpRecentBlocked, net)
           r == RecentBlockedResult(g.body)
       IN  /\ conn' = g.ph
           /\ IF g.fatal THEN Fatal("RecentBlocked", 0, g, net, "Get")
              ELSE IF r.fatal THEN Fatal("RecentBlocked", 0, g, net, "Unmarshal")
              ELSE Returned("RecentBlocked", 0, g, net,
                            [kind |-> "text", text |-> r.text], NoValue)
    /\ UNCHANGED conn0

(***************************************************************************)
(* The presenters.                                                         *)
(***************************************************************************)
\* The orders in which a range loop can visit the keys of a map.
RangeOrders(m) ==
    {p \in [1..Cardinality(DOMAIN m) -> DOMAIN m] :
        \A i, j \in DOMAIN p : p[i] = p[j] => i = j}

RECURSIVE RangeInvert_FirstWins(_, _, _, _)
RangeInvert_FirstWins(m, order, i, acc) ==
    IF i > Len(order) THEN acc
    ELSE LET k == order[i]
             v == m[k]
         IN  RangeInvert_FirstWins(m, order, i + 1,
                 [reverseMap |-> IF v \in DOMAIN acc.reverseMap THEN acc.reverseMap
                                 ELSE MapSet(acc.reverseMap, v, k),
                  freq |-> Append(acc.freq, v)])

RangeInvert_OncePerFrequency(m, order, i, acc) ==
    LET inv == RangeInvert_FirstWins(m, order, i, acc)
        firsts == SelectSeq(order, LAMBDA k : inv.reverseMap[m[k]] = k)
    IN  [reverseMap |-> inv.reverseMap,
         freq |-> [j \in 1..Len(firsts) |-> m[firsts[j]]]]

RECURSIVE RangeInvert(_, _, _, _)
\* for k, v := range m { reverseMap[v] = k; freq = append(freq, v) }
RangeInvert(m, order, i, acc) ==
    IF i > Len(order) THEN acc
    ELSE LET k == order[i]
             v == m[k]
         IN  RangeInvert(m, order, i + 1,
                 [reverseMap |-> MapSet(acc.reverseMap, v, k),
                  freq |-> Append(acc.freq, v)])

\* sort.Ints: ascending order.
RECURSIVE SortInts(_)
SortInts(s) ==
    IF Len(s) <= 1 THEN s
    ELSE LET rest == SortInts(Tail(s))
             x == Head(s)
             below == Cardinality({i \in 1..Len(rest) : rest[i] < x})
         IN  SubSeq(rest, 1, below) \o <<x>> \o SubSeq(rest, below + 1, Len(rest))

PrintDescending_Ascending(reverseMap, freq) ==
    [i \in 1..Len(freq) |-> [name |-> reverseMap[freq[i]], freq |-> freq[i]]]

\* for i := len(freq) - 1; i >= 0; i-- { Printf("- %s : %d\n", reverseMap[freq[i]], freq[i]) }
PrintDescending(reverseMap, freq) ==
    [i \in 1..Len(freq) |->
        LET f == freq[Len(freq) + 1 - i] IN [name |-> reverseMap[f], freq |-> f]]

\* What a frequency display prints when the range loop visits the keys in order.
ShowFrequencies(header, m, order) ==
    LET inv == RangeInvert(m, order, 1, [reverseMap |-> EmptyMap, freq |-> <<>>])
    IN  [header |-> header,
         lines |-> PrintDescending(inv.reverseMap, SortInts(inv.freq))]

Presented(op, recv, order, out) ==
    /\ last' = [op |-> op, src |-> held.src, order |-> order, recv |-> recv, out |-> out]
    /\ UNCHANGED <<conn, conn0, exited, held>>

SummaryShow ==
    /\ ~exited
    /\ held.kind = "Summary"
    /\ LET ph == held.v.v IN
       Presented("SummaryShow", ph, <<>>,
           [header |-> "=== 24h Summary:",
            lines |-> <<[label |-> "- Blocked Domains: ", value |-> ph.AdsBlockedToday],
                        [label |-> "- Blocked Percentage: ", value |-> ph.AdsPercentageToday],
                        [label |-> "- Queries: ", value |-> ph.DNSQueriesToday],
                        [label |-> "- Clients Ever Seen: ", value |-> ph.ClientsEverSeen]>>])

ShowBlocked ==
    /\ ~exited
    /\ held.kind = "Top"
    /\ LET ph == held.v.v IN
       \E order \in RangeOrders(ph.Blocked) :
          Presented("ShowBlocked", ph.Blocked, order,
              ShowFrequencies("=== Blocked domains over last 24h:", ph.Blocked, order))

ShowQueries ==
    /\ ~exited
    /\ held.kind = "Top"
    /\ LET ph == held.v.v IN
       \E order \in RangeOrders(ph.Queries) :
          Presented("ShowQueries", ph.Queries, order,
              ShowFrequencies("=== Queries over last 24h:", ph.Queries, order))

ClientsShow ==
    /\ ~exited
    /\ held.kind = "Clients"
    /\ LET ph == held.v.v IN
       \E order \in RangeOrders(ph.Clients) :
          Presented("ClientsShow", ph.Clients, order,
              ShowFrequencies("=== Clients over last 24h:", ph.Clients, order))

(***************************************************************************)
(* The program: a caller that constructs a connector and then calls the    *)
(* accessors and presenters until an accessor ends the process.            *)
(*                                                                         *)
(* Spec explores one accessor call over every modelled response, followed  *)
(* by any presenter calls; SeqSpec explores accessor calls following one   *)
(* another without limit, over a sample of the responses.                  *)
(***************************************************************************)
Init ==
    /\ conn \in PiHConnector
    /\ conn0 = conn
    /\ exited = FALSE
    /\ last = [op |-> "none"]
    /\ held = NoValue

FirstCall == last.op = "none"

Next ==
    \/ \E net \in Responses("Type") : FirstCall /\ Type(net)
    \/ \E net \in Responses("Version") : FirstCall /\ Version(net)
    \/ \E net \in Responses("Summary") : FirstCall /\ Summary(net)
    \/ \E net \in Responses("TimeData") : FirstCall /\ TimeData(net)
    \/ \E n \in Counts, net \in Responses("Top") : FirstCall /\ Top(n, net)
    \/ \E n \in Counts, net \in Responses("Clients") : FirstCall /\ Clients(n, net)
    \/ \E net \in Responses("ForwardDestinations") : FirstCall /\ ForwardDestinations(net)
    \/ \E net \in Responses("QueryTypes") : FirstCall /\ QueryTypes(net)
    \/ \E net \in Responses("Queries") : FirstCall /\ Queries(net)
    \/ \E net \in Responses("Enable") : FirstCall /\ Enable(net)
    \/ \E net \in Responses("Disable") : FirstCall /\ Disable(net)
    \/ \E net \in Responses("RecentBlocked") : FirstCall /\ RecentBlocked(net)
    \/ SummaryShow
    \/ ShowBlocked
    \/ ShowQueries
    \/ ClientsShow

Spec == Init /\ [][Next]_vars

SeqNext ==
    \/ \E net \in SampleResponses("Type") : Type(net)
    \/ \E net \in SampleResponses("Version") : Version(net)
    \/ \E net \in SampleResponses("Summary") : Summary(net)
    \/ \E net \in SampleResponses("TimeData") : TimeData(net)
    \/ \E n \in Counts, net \in SampleResponses("Top") : Top(n, net)
    \/ \E n \in Counts, net \in SampleResponses("Clients") : Clients(n, net)
    \/ \E net \in SampleResponses("ForwardDestinations") : ForwardDestinations(net)
    \/ \E net \in SampleResponses("QueryTypes") : QueryTypes(net)
    \/ \E net \in SampleResponses("Queries") : Queries(net)
    \/ \E net \in SampleResponses("Enable") : Enable(net)
    \/ \E net \in SampleResponses("Disable") : Disable(net)
    \/ \E net \in SampleResponses("RecentBlocked") : RecentBlocked(net)
    \/ SummaryShow
    \/ ShowBlocked
    \/ ShowQueries
    \/ ClientsShow

SeqSpec == Init /\ [][SeqNext]_vars

(***************************************************************************)
(* Properties.                                                             *)
(***************************************************************************)
Presenters == {"ShowBlocked", "ShowQueries", "ClientsShow"}
IsAccessorCall(l) == l.op \notin Presenters \cup {"none", "SummaryShow"}
IsFrequencyDisplay == last.op \in Presenters
Range(f) == {f[x] : x \in DOMAIN f}

\* C1: the URL Get requests is "http://" + host + "/admin/api.php?" + fragment,
\* followed by "&auth=" + token when the token is non-empty and by nothing
\* when it is empty.
C1_RequestURL ==
    IsAccessorCall(last) =>
        LET url == last.url
            h == Len(conn0.Host)
            e == Len(last.endpoint)
            t == Len(conn0.Token)
        IN  /\ Len(url) >= 7 + h + 15 + e
            /\ SubSeq(url, 1, 7) = <<"h", "t", "t", "p", ":", "/", "/">>
            /\ SubSeq(url, 8, 7 + h) = conn0.Host
            /\ SubSeq(url, 8 + h, 22 + h) =
                 <<"/", "a", "d", "m", "i", "n", "/", "a", "p", "i", ".", "p", "h", "p", "?">>
            /\ SubSeq(url, 23 + h, 22 + h + e) = last.endpoint
            /\ IF t > 0
               THEN /\ Len(url) = 22 + h + e + 6 + t
                    /\ SubSeq(url, 23 + h + e, 28 + h + e) = <<"&", "a", "u", "t", "h", "=">>
                    /\ SubSeq(url, 29 + h + e, Len(url)) = conn0.Token
               ELSE Len(url) = 22 + h + e

C1_Witness ==
    /\ IsAccessorCall(last)
    /\ conn0.Host # <<>> /\ conn0.Token # <<>>
    /\ last.url[Len(last.url) - Len(conn0.Token)] = "="

\* C2: Enable returns nil only when the decoded mapping's status is exactly
\* "enabled", Disable only when it is exactly "disabled"; for every other
\* decoded mapping (no status key, the opposite status) the generic failure
\* is returned.
C2_StatusDecidesResult ==
    (last.op \in {"Enable", "Disable"} /\ last.outcome = "returned") =>
        LET resp == last.decoded
            want == IF last.op = "Enable" THEN "enabled" ELSE "disabled"
            matches == "status" \in DOMAIN resp /\ resp["status"] = want
        IN  /\ matches => last.ret = [kind |-> "nil"]
            /\ ~matches => last.ret = [kind |-> "error", msg |-> "Something went wrong"]

C2_Witness ==
    /\ last.op = "Enable" /\ last.outcome = "returned"
    /\ "status" \notin DOMAIN last.decoded
    /\ "Status" \in DOMAIN last.decoded
    /\ last.ret.kind = "error"

IsStringMapDoc(d) ==
    d.kind = "object" /\ \A i \in 1..Len(d.members) : d.members[i].val.kind = "str"
\* What the decoder takes for a map[string]string: null, or an object whose
\* values are strings or null.
IsAcceptedMapDoc(d) ==
    \/ d.kind = "null"
    \/ d.kind = "object"
       /\ \A i \in 1..Len(d.members) : d.members[i].val.kind \in {"str", "null"}

FailureIsFatal ==
    IsAccessorCall(last) =>
        /\ last.net.kind # "ok" => last.outcome = "fatal" /\ exited
        /\ (last.net.kind = "ok" /\ last.op # "RecentBlocked" /\ ~Valid(last.net.bytes))
              => last.outcome = "fatal" /\ exited
        /\ (last.net.kind = "ok" /\ last.op # "RecentBlocked" /\ Valid(last.net.bytes)
            /\ DocOf(last.net.bytes).kind \in {"bool", "num", "str", "array"})
              => last.outcome = "fatal" /\ exited
        /\ last.outcome = "fatal" <=> exited

\* C3 as stated: transport, read and decode failures end the process; a status
\* mismatch is a returned error; every Enable/Disable body that is valid JSON
\* but not a string-to-string mapping is fatal.
C3_NonMappingIsFatal ==
    /\ FailureIsFatal
    /\ (last.op \in {"Enable", "Disable"} /\ last.net.kind = "ok" /\ Valid(last.net.bytes)) =>
          LET d == DocOf(last.net.bytes) IN
          /\ IsStringMapDoc(d) => last.outcome = "returned" /\ ~exited
          /\ ~IsStringMapDoc(d) => last.outcome = "fatal" /\ exited

\* C3 amended: as C3, but the Enable/Disable bodies that are fatal are the
\* valid JSON bodies that are neither null nor an object whose values are all
\* strings or null; a null body and null values are taken by the decoder and
\* the call returns to its caller.
C3_FatalVersusReturned ==
    /\ FailureIsFatal
    /\ (last.op \in {"Enable", "Disable"} /\ last.net.kind = "ok" /\ Valid(last.net.bytes)) =>
          LET d == DocOf(last.net.bytes) IN
          /\ IsAcceptedMapDoc(d) => last.outcome = "returned" /\ ~exited
          /\ ~IsAcceptedMapDoc(d) => last.outcome = "fatal" /\ exited
          /\ d.kind = "null" => last.ret.kind = "error"

C3_Witness ==
    /\ last.op = "Enable" /\ last.net.kind = "ok"
    /\ last.net.bytes = <<[v |-> [kind |-> "null"], t |-> "lit"]>>
    /\ last.outcome = "returned" /\ last.ret.kind = "error" /\ ~exited

DigitValue ==
    [c \in {"0", "1", "2", "3", "4", "5", "6", "7", "8", "9"} |->
        CASE c = "0" -> 0 [] c = "1" -> 1 [] c = "2" -> 2 [] c = "3" -> 3 [] c = "4" -> 4
          [] c = "5" -> 5 [] c = "6" -> 6 [] c = "7" -> 7 [] c = "8" -> 8 [] c = "9" -> 9]

RECURSIVE DigitsValue(_)
DigitsValue(s) ==
    IF s = <<>> THEN 0 ELSE 10 * DigitsValue(SubSeq(s, 1, Len(s) - 1)) + DigitValue[s[Len(s)]]

\* The decimal numerals: an optional "-", then digits with no leading zero.
IsDecimal(s) ==
    LET digits == IF s # <<>> /\ s[1] = "-" THEN Tail(s) ELSE s IN
    /\ digits # <<>>
    /\ \A i \in 1..Len(digits) : digits[i] \in DOMAIN DigitValue
    /\ Len(digits) > 1 => digits[1] # "0"

DecimalValue(s) == IF s[1] = "-" THEN 0 - DigitsValue(Tail(s)) ELSE DigitsValue(s)

\* C4: Top(n) and Clients(n) request "topItems=" and "topClients=" followed by
\* the decimal rendering of n itself, for negative, zero and positive n.
C4_CountPassedThrough ==
    last.op \in {"Top", "Clients"} =>
        LET prefix == IF last.op = "Top"
                      THEN <<"t", "o", "p", "I", "t", "e", "m", "s", "=">>
                      ELSE <<"t", "o", "p", "C", "l", "i", "e", "n", "t", "s", "=">>
            e == last.endpoint
            numeral == SubSeq(e, Len(prefix) + 1, Len(e))
        IN  /\ Len(e) > Len(prefix)
            /\ SubSeq(e, 1, Len(prefix)) = prefix
            /\ IsDecimal(numeral)
            /\ DecimalValue(numeral) = last.arg
            /\ (numeral[1] = "-") <=> (last.arg < 0)

C4_Witness ==
    /\ last.op = "Clients" /\ last.arg < -9
    /\ last.endpoint[Len(last.endpoint) - 2] = "-"

\* C5: RecentBlocked returns the response body unchanged as text whatever the
\* body is (valid JSON, malformed JSON, empty): no body makes it fail.
C5_BodyReturnedVerbatim ==
    (last.op = "RecentBlocked" /\ last.net.kind = "ok") =>
        /\ last.outcome = "returned" /\ ~exited
        /\ last.ret.kind = "text"
        /\ Len(last.ret.text) = Len(last.net.bytes)
        /\ \A i \in 1..Len(last.net.bytes) : last.ret.text[i] = last.net.bytes[i]

C5_Witness ==
    /\ last.op = "RecentBlocked" /\ last.outcome = "returned"
    /\ last.net.bytes # <<>> /\ ~Valid(last.net.bytes)
    /\ last.ret.text = last.net.bytes

\* The names of the displayed mapping in the order the decoder inserted them:
\* the order of the members of the object of the response it was decoded from.
DisplayedTag ==
    CASE last.op = "ShowBlocked" -> "top_ads"
      [] last.op = "ShowQueries" -> "top_queries"
      [] last.op = "ClientsShow" -> "top_sources"

InsertedNames ==
    LET ms == last.src.members
        at == {i \in 1..Len(ms) : ms[i].key = DisplayedTag}
        inner == ms[CHOOSE i \in at : \A j \in at : j <= i].val.members
    IN  [i \in 1..Len(inner) |-> inner[i].key]

PrintedNames(f) ==
    {last.out.lines[i].name : i \in {j \in 1..Len(last.out.lines) : last.out.lines[j].freq = f}}

LastOf(names, f) ==
    names[CHOOSE i \in 1..Len(names) :
            /\ last.recv[names[i]] = f
            /\ \A j \in 1..Len(names) : last.recv[names[j]] = f => j <= i]

\* C6 as stated: of the names that share a frequency the display keeps one, and
\* it is the one inserted last.
C6_LastInsertedWins ==
    (IsFrequencyDisplay /\ last.recv # <<>>) =>
        \A f \in Range(last.recv) : PrintedNames(f) = {LastOf(InsertedNames, f)}

\* C6 amended: of the names that share a frequency the display keeps one, and
\* it is the one the inverting range loop visits last, whatever the order of
\* insertion.
C6_LastVisitedWins ==
    IsFrequencyDisplay =>
        \A f \in Range(last.recv) : PrintedNames(f) = {LastOf(last.order, f)}

C6_Witness ==
    /\ last.op = "ShowBlocked"
    /\ DOMAIN last.recv = {"a.com", "b.com", "c.com"}
    /\ last.recv["a.com"] = last.recv["c.com"] /\ last.recv["b.com"] > last.recv["a.com"]
    /\ InsertedNames = <<"a.com", "b.com", "c.com">>
    /\ PrintedNames(last.recv["a.com"]) = {"a.com"}

\* C7: the lines after the header are in non-increasing order of frequency, and
\* each printed name is a key of the mapping whose value is the frequency
\* printed next to it.
C7_DescendingAndFaithful ==
    IsFrequencyDisplay =>
        LET lines == last.out.lines IN
        /\ \A i, j \in 1..Len(lines) : i < j => lines[i].freq >= lines[j].freq
        /\ \A i \in 1..Len(lines) :
              /\ lines[i].name \in DOMAIN last.recv
              /\ last.recv[lines[i].name] = lines[i].freq

C7_Witness ==
    /\ last.op = "ShowQueries"
    /\ Len(last.out.lines) = 3
    /\ last.out.lines[1].freq > last.out.lines[2].freq
    /\ last.out.lines[2].freq = last.out.lines[3].freq

\* Each string field of the Summary record with its json key.
SummaryTextKeys ==
    {<<"DomainsBeingBlocked", "domains_being_blocked">>,
     <<"DNSQueriesToday", "dns_queries_today">>,
     <<"AdsBlockedToday", "ads_blocked_today">>,
     <<"AdsPercentageToday", "ads_percentage_today">>,
     <<"UniqueDomains", "unique_domains">>,
     <<"QueriesForwarded", "queries_forwarded">>,
     <<"QueriesCached", "queries_cached">>,
     <<"ClientsEverSeen", "clients_ever_seen">>,
     <<"UniqueClients", "unique_clients">>,
     <<"DNSQueriesAllTypes", "dns_queries_all_types">>,
     <<"ReplyUNKNOWN", "reply_UNKNOWN">>,
     <<"ReplyNODATA", "reply_NODATA">>,
     <<"ReplyNXDOMAIN", "reply_NXDOMAIN">>,
     <<"ReplyCNAME", "reply_CNAME">>,
     <<"ReplyIP", "reply_IP">>,
     <<"ReplyDOMAIN", "reply_DOMAIN">>,
     <<"ReplyRRNAME", "reply_RRNAME">>,
     <<"ReplySERVFAIL", "reply_SERVFAIL">>,
     <<"ReplyREFUSED", "reply_REFUSED">>,
     <<"ReplyNOTIMP", "reply_NOTIMP">>,
     <<"ReplyOTHER", "reply_OTHER">>,
     <<"ReplyDNSSEC", "reply_DNSSEC">>,
     <<"ReplyNONE", "reply_NONE">>,
     <<"ReplyBLOB", "reply_BLOB">>,
     <<"DNSQueriesAllReplies", "dns_queries_all_replies">>,
     <<"PrivacyLevel", "privacy_level">>,
     <<"Status", "status">>}

\* A summary body whose keys name each field at most once.
NamesFieldsOnce(d) ==
    /\ d.kind = "object"
    /\ \A i, j \in 1..Len(d.members) :
          Fold(d.members[i].key) = Fold(d.members[j].key) => i = j

\* C8: decoding a well-formed summary body keeps every string field verbatim:
\* the field equals the text carried under its key, also when the text looks
\* like a number.
C8_SummaryTextVerbatim ==
    (last.op = "Summary" /\ last.outcome = "returned"
     /\ NamesFieldsOnce(DocOf(last.net.bytes))) =>
        LET ms == DocOf(last.net.bytes).members IN
        \A f \in SummaryTextKeys :
            \A i \in 1..Len(ms) :
                (Fold(ms[i].key) = Fold(f[2]) /\ ms[i].val.kind = "str")
                    => last.ret.v[f[1]] = ms[i].val.s

C8_Witness ==
    /\ last.op = "Summary" /\ last.outcome = "returned"
    /\ DocOf(last.net.bytes) =
         [kind |-> "object",
          members |-> <<[key |-> "ads_blocked_today", val |-> [kind |-> "str", s |-> "1,234"]],
                        [key |-> "reply_IP", val |-> [kind |-> "str", s |-> " 07.50 "]]>>]
    /\ last.ret.v.AdsBlockedToday = "1,234"
    /\ last.ret.v.ReplyIP = " 07.50 "
    /\ last.ret.v.AdsPercentageToday = ""

\* C9: no call changes the connector's host or token, whether it returns a
\* value or a failure, and a call repeated with the same argument and the same
\* response gives the same request and the same result as the call before it.
C9_ConnectorUnchanged ==
    [][/\ conn' = conn
       /\ conn' = conn0
       /\ (/\ IsAccessorCall(last) /\ IsAccessorCall(last')
           /\ last'.op = last.op /\ last'.arg = last.arg /\ last'.net = last.net)
             => last' = last]_vars

C9_Witness ==
    /\ last.op = "Disable" /\ last.outcome = "returned" /\ last.ret.kind = "error"
    /\ held.kind = "Disable"
    /\ conn = conn0 /\ conn.Token # <<>>
    /\ last.url[Len(last.url)] = "k"

\* C10: a display prints one line per entry of the mapping; when k entries
\* share a frequency it prints k lines with that frequency, all with the same
\* name, and the other k - 1 names are printed nowhere.
C10_OneLinePerEntry ==
    IsFrequencyDisplay =>
        LET lines == last.out.lines
            m == last.recv
        IN  /\ Len(lines) = Cardinality(DOMAIN m)
            /\ \A f \in Range(m) :
                  LET tied == {n \in DOMAIN m : m[n] = f}
                      at == {i \in 1..Len(lines) : lines[i].freq = f}
                  IN  /\ Cardinality(at) = Cardinality(tied)
                      /\ \E n \in tied :
                            /\ \A i \in at : lines[i].name = n
                            /\ \A i \in 1..Len(lines) : lines[i].name \notin tied \ {n}

C10_Witness ==
    /\ last.op = "ClientsShow"
    /\ Cardinality(DOMAIN last.recv) = 3
    /\ Cardinality(Range(last.recv)) = 1
    /\ Len(last.out.lines) = 3
    /\ \A i \in 1..3 : last.out.lines[i].name = last.out.lines[1].name
====
